---------------------------- MODULE Spec2Model ----------------------------
(***************************************************************************)
(* Model of koishi-plugin-electric-fee (src/src/index.ts): the three       *)
(* sub-commands of the payment ledger (record, list, delete) running as    *)
(* asynchronous handlers against one shared table, electric_payment.       *)
(*                                                                         *)
(* A handler runs synchronously up to each `await` of a store operation;   *)
(* the store operation takes effect, and the handler resumes, in a later   *)
(* step.  Several invocations may be suspended at the same time.           *)
(*                                                                         *)
(* Numbers are JavaScript numbers.  A finite amount is held as an integer  *)
(* count of 10^-7 units (seven fractional decimal digits), so that 0.01 is *)
(* 100000 and 1e-6 is 10; NaN, +Infinity, -Infinity and a missing argument *)
(* are separate kinds.  The arithmetic of the validation is carried out    *)
(* exactly on these values.                                                *)
(***************************************************************************)
EXTENDS Integers, Sequences, FiniteSets, TLC

VARIABLES store,    \* the rows of table electric_payment
          nextId,   \* the table's auto-increment counter
          now,      \* the wall clock read by `new Date()`
          pc,       \* per invocation slot: where the handler is suspended
          loc,      \* per invocation slot: the handler's local variables
          last,     \* the command that returned last, and what it returned
          seen      \* the listing a user read last

vars == <<store, nextId, now, pc, loc, last, seen>>

-----------------------------------------------------------------------------
(* Bounds of the model *)

\* rows ever created when one invocation runs at a time
MaxRecords == 3

\* rows ever created when two invocations overlap
MaxOverlapRecords == 2

\* the values of the clock
Instants == {0, 1}

-----------------------------------------------------------------------------
(* JavaScript numbers *)

Fin(v) == [kind |-> "fin", v |-> v]
NaN == [kind |-> "nan", v |-> 0]
PosInf == [kind |-> "posinf", v |-> 0]
NegInf == [kind |-> "neginf", v |-> 0]
\* the argument was not given: `amount` is undefined
Undefined == [kind |-> "undefined", v |-> 0]

\* 1.0 in units of 10^-7
Scale == 10 * 1000 * 1000

\* a < b on numbers (false whenever an operand is NaN)
Less(a, b) ==
    CASE a.kind = "nan" \/ b.kind = "nan" -> FALSE
      [] a.kind = "neginf" -> b.kind # "neginf"
      [] a.kind = "posinf" -> FALSE
      [] b.kind = "neginf" -> FALSE
      [] b.kind = "posinf" -> TRUE
      [] OTHER -> a.v < b.v

\* a - b
Minus(a, b) ==
    CASE a.kind = "nan" \/ b.kind = "nan" -> NaN
      [] a.kind = "fin" /\ b.kind = "fin" -> Fin(a.v - b.v)
      [] a.kind = "fin" -> IF b.kind = "posinf" THEN NegInf ELSE PosInf
      [] b.kind = "fin" -> a
      [] a.kind = b.kind -> NaN
      [] OTHER -> a

\* Math.abs(a)
Abs(a) ==
    CASE a.kind = "fin" -> Fin(IF a.v < 0 THEN -a.v ELSE a.v)
      [] a.kind = "neginf" -> PosInf
      [] OTHER -> a

\* Math.round(a * 100) / 100: Math.round rounds to the nearest integer, a
\* half towards +Infinity; infinities and NaN pass through unchanged
RoundToCents(a) ==
    IF a.kind = "fin"
    THEN Fin(((a.v + (Scale \div 200)) \div (Scale \div 100)) * (Scale \div 100))
    ELSE a

\* const minAmount = 0.01
minAmount == Fin(Scale \div 100)

\* a tolerance of 1e-2 in place of 1e-6
ToleranceLoose == Fin(Scale \div 100)

\* the tolerance 1e-6 of the two-decimals check
Tolerance == Fin(Scale \div (1000 * 1000))

-----------------------------------------------------------------------------
(* Strings: a string is a sequence of one-character strings *)

Digits == {"0", "1", "2", "3", "4", "5", "6", "7", "8", "9"}

DigitValue(c) ==
    CASE c = "0" -> 0 [] c = "1" -> 1 [] c = "2" -> 2 [] c = "3" -> 3
      [] c = "4" -> 4 [] c = "5" -> 5 [] c = "6" -> 6 [] c = "7" -> 7
      [] c = "8" -> 8 [] c = "9" -> 9

\* \d+
IsDigits(s) == Len(s) >= 1 /\ \A i \in 1..Len(s) : s[i] \in Digits

RECURSIVE ParseInt(_)
\* parseInt of a string of decimal digits
ParseInt(s) ==
    IF Len(s) = 0 THEN 0
    ELSE 10 * ParseInt(SubSeq(s, 1, Len(s) - 1)) + DigitValue(s[Len(s)])

\* str.match(/^(\d+)(?:-(\d+))?$/): the captured groups, <<>> when there is
\* no match; group 2 is <<>> when the optional part is absent
Match(str) ==
    IF IsDigits(str) THEN <<str, <<>>>>
    ELSE IF \E k \in 1..Len(str) :
                /\ str[k] = "-"
                /\ IsDigits(SubSeq(str, 1, k - 1))
                /\ IsDigits(SubSeq(str, k + 1, Len(str)))
         THEN LET k == CHOOSE k \in 1..Len(str) :
                          /\ str[k] = "-"
                          /\ IsDigits(SubSeq(str, 1, k - 1))
                          /\ IsDigits(SubSeq(str, k + 1, Len(str)))
              IN  <<SubSeq(str, 1, k - 1), SubSeq(str, k + 1, Len(str))>>
         ELSE <<>>

\* what parseRange returns: null, or an array of numbers
Null == [null |-> TRUE, list |-> <<>>]
Array(list) == [null |-> FALSE, list |-> list]

\* parseRange: the ascending list start..end, or null
parseRange(str) ==
    LET match == Match(str) IN
    IF match = <<>> THEN Null
    ELSE LET start == ParseInt(match[1])
             end == IF match[2] # <<>> THEN ParseInt(match[2]) ELSE start
         IN  IF start <= end
             THEN Array([i \in 1..(end - start + 1) |-> start + i - 1])
             ELSE Null

\* [...new Set(indexes)].sort((a, b) => a - b)
RECURSIVE SortAsc(_)
SortAsc(S) ==
    IF S = {} THEN <<>>
    ELSE LET m == CHOOSE x \in S : \A y \in S : x <= y
         IN  <<m>> \o SortAsc(S \ {m})

Range(s) == {s[i] : i \in 1..Len(s)}

uniqueIndexesOf(indexes) == SortAsc(Range(indexes))

-----------------------------------------------------------------------------
(* The store: table electric_payment *)

Scope(c, u) == [channelId |-> c, userId |-> u]

\* the filter without userId
MatchingChannel(S, sc) == {r \in S : r.channelId = sc.channelId}

\* the rows matching { channelId, userId }
Matching(S, sc) ==
    {r \in S : r.channelId = sc.channelId /\ r.userId = sc.userId}

\* the order { sort: { date: 'desc' } } would put two rows in
DateDesc(a, b) == a.date >= b.date

\* the order { sort: { date: 'asc' } } puts two rows in
DateAsc(a, b) == a.date <= b.date

\* a get without its sort option: the matching rows in any order
GetUnsorted(S, sc) ==
    LET R == Matching(S, sc)
        n == Cardinality(R)
    IN  {s \in [1..n -> R] : \A i, j \in 1..n : i # j => s[i] # s[j]}

\* database.get(table, { channelId, userId }, { sort: { date: 'asc' } }): the
\* results the store may return.  The order of rows with equal dates is not
\* fixed by the query.
Get(S, sc) ==
    LET R == Matching(S, sc)
        n == Cardinality(R)
    IN  {s \in [1..n -> R] :
            /\ \A i, j \in 1..n : i # j => s[i] # s[j]
            /\ \A i, j \in 1..n : i < j => DateAsc(s[i], s[j])}

\* a remove of { id: targets[0] } only
RemoveFirst(S, targets) == {r \in S : r.id # targets[1]}

\* database.remove(table, { id: targets }): the rows that stay
Remove(S, targets) == {r \in S : r.id \notin Range(targets)}

\* database.create(table, row) with autoInc: the table afterwards
Create(S, id, row) ==
    S \cup {[id |-> id, amount |-> row.amount, date |-> row.date,
             channelId |-> row.channelId, userId |-> row.userId]}

-----------------------------------------------------------------------------
(* Invocations *)

Handlers == {"h1", "h2"}

NoScope == Scope("", "")

IdleLoc ==
    [sc |-> NoScope, amount |-> NaN, validatedAmount |-> NaN, date |-> 0,
     input |-> <<>>, index |-> 0, records |-> <<>>, uniqueIndexes |-> <<>>,
     targets |-> <<>>]

\* what a command returned (the message, named by its meaning), with what
\* the caller passed and what the command did to the table
Returned(cmd, sc, outcome) ==
    [cmd |-> cmd, sc |-> sc, outcome |-> outcome, amount |-> NaN,
     input |-> <<>>, length |-> 0, records |-> <<>>, removed |-> {},
     quiet |-> TRUE]

Init ==
    /\ store = {}
    /\ nextId = 1
    /\ now = 0
    /\ pc = [h \in Handlers |-> "idle"]
    /\ loc = [h \in Handlers |-> IdleLoc]
    /\ last = Returned("none", NoScope, "none")
    /\ seen = [sc |-> NoScope, records |-> <<>>]

\* time passes
Tick ==
    /\ \E t \in Instants : t > now /\ now' = t
    /\ UNCHANGED <<store, nextId, pc, loc, last, seen>>

\* rows that suspended record handlers are about to create
Pending == Cardinality({h \in Handlers : pc[h] = "create"})

\* the outcome of the record command's validation of `amount`
Validate(amount) ==
    IF amount.kind = "undefined" \/ amount.kind = "nan" THEN "InvalidAmount"
    ELSE IF Less(amount, minAmount) THEN "BelowMinimum"
    ELSE IF Less(Tolerance, Abs(Minus(amount, RoundToCents(amount))))
         THEN "PrecisionError"
    ELSE "ok"

\* 交电费 <amount>, up to the await of database.create; cap bounds the rows
\* the model creates
RecordCall(h, sc, amount, cap) ==
    /\ pc[h] = "idle"
    /\ IF Validate(amount) # "ok"
       THEN /\ last' = [Returned("record", sc, Validate(amount))
                          EXCEPT !.amount = amount]
            /\ UNCHANGED <<pc, loc>>
       ELSE /\ nextId + Pending <= cap
            /\ pc' = [pc EXCEPT ![h] = "create"]
            /\ loc' = [loc EXCEPT ![h] = [IdleLoc EXCEPT
                          !.sc = sc, !.amount = amount,
                          !.validatedAmount = RoundToCents(amount),
                          !.date = now]]
            /\ UNCHANGED last
    /\ UNCHANGED <<store, nextId, now, seen>>

\* database.create settles and the record handler returns
RecordDone(h, ok) ==
    /\ pc[h] = "create"
    /\ IF ok
       THEN /\ store' = Create(store, nextId,
                           [amount |-> loc[h].validatedAmount,
                            date |-> loc[h].date,
                            channelId |-> loc[h].sc.channelId,
                            userId |-> loc[h].sc.userId])
            /\ nextId' = nextId + 1
            /\ last' = [Returned("record", loc[h].sc, "Recorded")
                          EXCEPT !.amount = loc[h].amount]
       ELSE /\ last' = [Returned("record", loc[h].sc, "StoreFailure")
                          EXCEPT !.amount = loc[h].amount]
            /\ UNCHANGED <<store, nextId>>
    /\ pc' = [pc EXCEPT ![h] = "idle"]
    /\ loc' = [loc EXCEPT ![h] = IdleLoc]
    /\ UNCHANGED <<now, seen>>

\* 统计电费, up to the await of database.get
ListCall(h, sc) ==
    /\ pc[h] = "idle"
    /\ pc' = [pc EXCEPT ![h] = "list"]
    /\ loc' = [loc EXCEPT ![h] = [IdleLoc EXCEPT !.sc = sc]]
    /\ UNCHANGED <<store, nextId, now, last, seen>>

\* database.get settles and the list handler renders and returns
ListDone(h, ok) ==
    /\ pc[h] = "list"
    /\ IF ok
       THEN \E records \in Get(store, loc[h].sc) :
              last' = IF Len(records) = 0
                      THEN Returned("list", loc[h].sc, "NoRecords")
                      ELSE [Returned("list", loc[h].sc, "Listed")
                              EXCEPT !.length = Len(records),
                                     !.records = records]
       ELSE last' = Returned("list", loc[h].sc, "StoreFailure")
    /\ pc' = [pc EXCEPT ![h] = "idle"]
    /\ loc' = [loc EXCEPT ![h] = IdleLoc]
    /\ UNCHANGED <<store, nextId, now, seen>>

\* 电费.删 <input>, up to the await of database.get
DeleteCall(h, sc, input) ==
    /\ pc[h] = "idle"
    /\ IF input = <<>>
       THEN /\ last' = Returned("delete", sc, "MissingInput")
            /\ UNCHANGED <<pc, loc>>
       ELSE /\ pc' = [pc EXCEPT ![h] = "get"]
            /\ loc' = [loc EXCEPT ![h] = [IdleLoc EXCEPT
                          !.sc = sc, !.input = input]]
            /\ UNCHANGED last
    /\ UNCHANGED <<store, nextId, now, seen>>

\* the check without its upper bound
SomeBelowOne(indexes, length) ==
    \E k \in 1..Len(indexes) : indexes[k] < 1

\* indexes.some(i => i < 1 || i > records.length)
SomeOutOfRange(indexes, length) ==
    \E k \in 1..Len(indexes) : indexes[k] < 1 \/ indexes[k] > length

\* the lookup records[i] in place of records[i - 1]
targetsZeroBased(uniqueIndexes, records) ==
    LET found == SelectSeq(uniqueIndexes, LAMBDA i : i + 1 \in 1..Len(records))
    IN  [k \in 1..Len(found) |-> records[found[k] + 1].id]

\* uniqueIndexes.map(i => records[i - 1]?.id).filter(id => id !== undefined)
targetsOf(uniqueIndexes, records) ==
    LET found == SelectSeq(uniqueIndexes, LAMBDA i : i \in 1..Len(records))
    IN  [k \in 1..Len(found) |-> records[found[k]].id]

\* database.get settles: the delete handler resolves the ordinals and goes
\* on to the await of database.remove, or returns.  The get is outside the
\* handler's try block: when it fails, the rejection leaves the handler.
DeleteResolve(h, ok) ==
    /\ pc[h] = "get"
    /\ IF ~ok
       THEN /\ last' = [Returned("delete", loc[h].sc, "Thrown")
                          EXCEPT !.input = loc[h].input]
            /\ pc' = [pc EXCEPT ![h] = "idle"]
            /\ loc' = [loc EXCEPT ![h] = IdleLoc]
       ELSE \E records \in Get(store, loc[h].sc) :
            LET input == loc[h].input
                indexes == parseRange(input)
                said(outcome) ==
                    [Returned("delete", loc[h].sc, outcome)
                       EXCEPT !.input = input, !.length = Len(records)]
            IN
            IF Len(records) = 0
            THEN /\ last' = said("NoRecords")
                 /\ pc' = [pc EXCEPT ![h] = "idle"]
                 /\ loc' = [loc EXCEPT ![h] = IdleLoc]
            ELSE IF indexes = Null \/ SomeOutOfRange(indexes.list, Len(records))
            THEN /\ last' = said("InvalidRange")
                 /\ pc' = [pc EXCEPT ![h] = "idle"]
                 /\ loc' = [loc EXCEPT ![h] = IdleLoc]
            ELSE LET uniqueIndexes == uniqueIndexesOf(indexes.list)
                     targets == targetsOf(uniqueIndexes, records)
                 IN  IF Len(targets) = 0
                     THEN /\ last' = said("NothingToDelete")
                          /\ pc' = [pc EXCEPT ![h] = "idle"]
                          /\ loc' = [loc EXCEPT ![h] = IdleLoc]
                     ELSE /\ pc' = [pc EXCEPT ![h] = "remove"]
                          /\ loc' = [loc EXCEPT ![h] = [loc[h] EXCEPT
                                        !.records = records,
                                        !.uniqueIndexes = uniqueIndexes,
                                        !.targets = targets]]
                          /\ UNCHANGED last
    /\ UNCHANGED <<store, nextId, now, seen>>

\* database.remove settles and the delete handler returns
DeleteDone(h, ok) ==
    /\ pc[h] = "remove"
    /\ LET said(outcome) ==
               [Returned("delete", loc[h].sc, outcome)
                  EXCEPT !.input = loc[h].input,
                         !.length = Len(loc[h].records)]
       IN
       IF ok
       THEN /\ store' = Remove(store, loc[h].targets)
            /\ last' = [said("Deleted") EXCEPT
                          !.removed = store \ store',
                          !.quiet = (Matching(store, loc[h].sc)
                                       = Range(loc[h].records))]
       ELSE /\ last' = said("StoreFailure")
            /\ UNCHANGED store
    /\ pc' = [pc EXCEPT ![h] = "idle"]
    /\ loc' = [loc EXCEPT ![h] = IdleLoc]
    /\ UNCHANGED <<nextId, now, seen>>

-----------------------------------------------------------------------------
(* The earlier delete command, 删除交费 <index>, which takes one ordinal *)

\* up to the await of database.get
DeleteOneCall(h, sc, index) ==
    /\ pc[h] = "idle"
    /\ IF index = 0 \/ index <= 0
       THEN /\ last' = Returned("deleteOne", sc, "InvalidIndex")
            /\ UNCHANGED <<pc, loc>>
       ELSE /\ pc' = [pc EXCEPT ![h] = "getOne"]
            /\ loc' = [loc EXCEPT ![h] = [IdleLoc EXCEPT
                          !.sc = sc, !.index = index]]
            /\ UNCHANGED last
    /\ UNCHANGED <<store, nextId, now, seen>>

\* database.get settles, inside the try block
DeleteOneResolve(h, ok) ==
    /\ pc[h] = "getOne"
    /\ IF ~ok
       THEN /\ last' = Returned("deleteOne", loc[h].sc, "StoreFailure")
            /\ pc' = [pc EXCEPT ![h] = "idle"]
            /\ loc' = [loc EXCEPT ![h] = IdleLoc]
       ELSE \E records \in Get(store, loc[h].sc) :
            IF loc[h].index > Len(records)
            THEN /\ last' = [Returned("deleteOne", loc[h].sc, "OutOfRange")
                               EXCEPT !.length = Len(records)]
                 /\ pc' = [pc EXCEPT ![h] = "idle"]
                 /\ loc' = [loc EXCEPT ![h] = IdleLoc]
            ELSE /\ pc' = [pc EXCEPT ![h] = "removeOne"]
                 /\ loc' = [loc EXCEPT ![h] = [loc[h] EXCEPT
                               !.records = records,
                               !.targets = <<records[loc[h].index].id>>]]
                 /\ UNCHANGED last
    /\ UNCHANGED <<store, nextId, now, seen>>

\* database.remove settles and the handler returns
DeleteOneDone(h, ok) ==
    /\ pc[h] = "removeOne"
    /\ IF ok
       THEN /\ store' = Remove(store, loc[h].targets)
            /\ last' = [Returned("deleteOne", loc[h].sc, "Deleted") EXCEPT
                          !.length = Len(loc[h].records),
                          !.removed = store \ store',
                          !.quiet = (Matching(store, loc[h].sc)
                                       = Range(loc[h].records))]
       ELSE /\ last' = [Returned("deleteOne", loc[h].sc, "StoreFailure")
                          EXCEPT !.length = Len(loc[h].records)]
            /\ UNCHANGED store
    /\ pc' = [pc EXCEPT ![h] = "idle"]
    /\ loc' = [loc EXCEPT ![h] = IdleLoc]
    /\ UNCHANGED <<nextId, now, seen>>

\* the user who asked for a listing reads the reply
Look ==
    /\ last.cmd = "list"
    /\ last.outcome = "Listed"
    /\ \A h \in Handlers : pc[h] \notin {"get", "remove"}
    /\ seen # [sc |-> last.sc, records |-> last.records]
    /\ seen' = [sc |-> last.sc, records |-> last.records]
    /\ UNCHANGED <<store, nextId, now, pc, loc, last>>

-----------------------------------------------------------------------------
(* Inputs *)

Scopes == {Scope("c1", "u1"), Scope("c1", "u2"), Scope("c2", "u1")}

OneScope == {Scope("c1", "u1")}

\* 0.01
OneAmount == {Fin(Scale \div 100)}

\* missing, NaN, the infinities, -0.01, 0, 0.005, 0.0099999, 0.01, 0.0100005,
\* 0.0100015, 0.015, 0.02, 0.2005, 1.23456 and 10.005
Amounts ==
    {Undefined, NaN, PosInf, NegInf} \cup
    {Fin(v) : v \in {-100000, 0, 50000, 99999, 100000, 100005, 100015,
                     150000, 200000, 2005000, 12345600, 100050000}}

Inputs ==
    { <<>>, <<"0">>, <<"1">>, <<"2">>, <<"3">>, <<"0", "2">>,
      <<"1", "-", "2">>, <<"2", "-", "3">>, <<"1", "-", "3">>,
      <<"3", "-", "1">>, <<"1", "-", "9">>, <<"1", "-", "1", "0">>,
      <<"x">>, <<"2", "-">>, <<"-", "2">>, <<"1", "-", "2", "-", "3">> }

FewInputs == { <<"1">>, <<"1", "-", "2">> }

\* the commands the callers may issue, and the steps of the store
NextOver(H, SC, AM, TK, cap) ==
    \/ Tick
    \/ \E h \in H, sc \in SC, amount \in AM : RecordCall(h, sc, amount, cap)
    \/ \E h \in H, ok \in BOOLEAN : RecordDone(h, ok)
    \/ \E h \in H, sc \in SC : ListCall(h, sc)
    \/ \E h \in H, ok \in BOOLEAN : ListDone(h, ok)
    \/ \E h \in H, sc \in SC, input \in TK : DeleteCall(h, sc, input)
    \/ \E h \in H, ok \in BOOLEAN : DeleteResolve(h, ok)
    \/ \E h \in H, ok \in BOOLEAN : DeleteDone(h, ok)

\* the earlier delete command
NextOne(H, SC) ==
    \/ \E h \in H, sc \in SC, index \in {0, 1, 2} : DeleteOneCall(h, sc, index)
    \/ \E h \in H, ok \in BOOLEAN : DeleteOneResolve(h, ok)
    \/ \E h \in H, ok \in BOOLEAN : DeleteOneDone(h, ok)

\* one invocation at a time, one scope, every amount
NextAmounts == NextOver({"h1"}, OneScope, Amounts, {<<"1">>}, MaxRecords)
SpecAmounts == Init /\ [][NextAmounts]_vars

\* one invocation at a time, one scope, every input of the delete command
NextInputs == NextOver({"h1"}, OneScope, OneAmount, Inputs, MaxRecords)
SpecInputs == Init /\ [][NextInputs]_vars

\* one invocation at a time in three scopes, with both delete commands
NextScopes ==
    \/ NextOver({"h1"}, Scopes, OneAmount, {<<"1">>}, MaxRecords)
    \/ NextOne({"h1"}, Scopes)
SpecScopes == Init /\ [][NextScopes]_vars

\* overlapping invocations in one scope, and a user who reads listings
NextRace ==
    \/ NextOver(Handlers, OneScope, OneAmount, FewInputs, MaxOverlapRecords)
    \/ Look
SpecRace == Init /\ [][NextRace]_vars

-----------------------------------------------------------------------------
(* Properties *)

\* a row belongs to a scope
InScope(r, sc) == r.channelId = sc.channelId /\ r.userId = sc.userId

\* the ordinals a token of the form N or N-M denotes (none when the token has
\* another form, or N > M)
TokenOrdinals(input) ==
    IF IsDigits(input) THEN {ParseInt(input)}
    ELSE UNION {IF /\ input[k] = "-"
                   /\ IsDigits(SubSeq(input, 1, k - 1))
                   /\ IsDigits(SubSeq(input, k + 1, Len(input)))
                THEN ParseInt(SubSeq(input, 1, k - 1))
                       .. ParseInt(SubSeq(input, k + 1, Len(input)))
                ELSE {} : k \in 1..Len(input)}

\* the token passes validation against a scope of `count` rows
ValidFor(input, count) ==
    TokenOrdinals(input) # {} /\ TokenOrdinals(input) \subseteq 1..count

\* the rows of R are those at the positions `ords` of some arrangement of
\* the rows of `cur` in ascending order of date
AtPositions(R, cur, ords) ==
    \E s \in [1..Cardinality(cur) -> cur] :
        /\ \A i, j \in 1..Cardinality(cur) : i # j => s[i] # s[j]
        /\ \A i, j \in 1..Cardinality(cur) : i < j => s[i].date <= s[j].date
        /\ ords \subseteq 1..Cardinality(cur)
        /\ R = {s[i] : i \in ords}

\* the amount has a non-zero third decimal digit
HasThirdDecimal(a) ==
    /\ a.kind = "fin"
    /\ ((IF a.v < 0 THEN -a.v ELSE a.v) \div (Scale \div 1000)) % 10 # 0

NonFinite(a) == a.kind \in {"nan", "posinf", "neginf"}

\* C1: no command lets a failure of a store operation leave the handler as
\* an exception; it is reported as a failure message.
StoreFailureNeverPropagates == last.outcome # "Thrown"

\* C2: a delete whose token fails validation (wrong form, N > M, or an
\* ordinal outside 1..recordCount) never reaches the remove and removes
\* nothing.
InvalidTokenRemovesNothing ==
    /\ \A h \in Handlers :
          pc[h] = "remove" => ValidFor(loc[h].input, Len(loc[h].records))
    /\ (last.cmd = "delete" /\ ~ValidFor(last.input, last.length))
          => /\ last.removed = {}
             /\ last.outcome \in
                  {"MissingInput", "NoRecords", "InvalidRange", "Thrown"}

\* a token with ordinals in range and out of range was refused on 3 rows,
\* which are all still there
InvalidTokenWitness ==
    /\ last.cmd = "delete"
    /\ last.input = <<"1", "-", "9">>
    /\ last.outcome = "InvalidRange"
    /\ last.length = 3
    /\ Cardinality(store) = 3

\* C3: a delete with a valid token N or N-M whose remove finds the scope as
\* its query found it removes exactly the rows at positions N..M in
\* ascending order of date, and nothing else.
DeleteRemovesPositions ==
    [][\A h \in Handlers :
          (/\ pc[h] = "remove"
           /\ pc'[h] = "idle"
           /\ last'.outcome = "Deleted"
           /\ Matching(store, loc[h].sc) = Range(loc[h].records))
          => LET cur == {r \in store : InScope(r, loc[h].sc)}
                 gone == store \ store'
             IN  /\ gone \subseteq cur
                 /\ store' = store \ gone
                 /\ Cardinality(gone) = Cardinality(TokenOrdinals(loc[h].input))
                 /\ AtPositions(gone, cur, TokenOrdinals(loc[h].input))]_vars

\* delete "1" removed the older of two rows, which was created second
DeletePositionsWitness ==
    /\ last.cmd = "delete"
    /\ last.outcome = "Deleted"
    /\ last.quiet
    /\ last.input = <<"1">>
    /\ \E g \in last.removed : \E r \in store :
          InScope(r, last.sc) /\ g.date < r.date /\ g.id > r.id

\* C4: a record command with a NaN or infinite amount returns InvalidAmount
\* and gets no further.
NonFiniteAmountRejected ==
    /\ \A h \in Handlers : pc[h] = "create" => ~NonFinite(loc[h].amount)
    /\ (last.cmd = "record" /\ NonFinite(last.amount))
          => last.outcome = "InvalidAmount"

StoredAmountsAreCents ==
    \A r \in store :
       /\ r.amount.kind = "fin"
       /\ r.amount.v >= Scale \div 100
       /\ r.amount.v % (Scale \div 100) = 0

\* the listing shows each row of the scope once
ListsTheScope ==
    /\ Range(last.records) = {r \in store : InScope(r, last.sc)}
    /\ Len(last.records) = Cardinality(Range(last.records))

\* C7 as stated: a listing shows the rows of the scope, each date strictly
\* greater than the one before.
ListStrictlyAscending ==
    (last.cmd = "list" /\ last.outcome = "Listed")
       => /\ ListsTheScope
          /\ \A i, j \in 1..Len(last.records) :
                i < j => last.records[i].date < last.records[j].date

\* C7 amended: a listing shows the rows of the scope, each date greater than
\* or equal to the one before.
ListAscending ==
    (last.cmd = "list" /\ last.outcome = "Listed")
       => /\ ListsTheScope
          /\ \A i, j \in 1..Len(last.records) :
                i < j => last.records[i].date <= last.records[j].date

\* a listing of three rows, two of them created at the same instant
ListAscendingWitness ==
    /\ last.cmd = "list"
    /\ last.outcome = "Listed"
    /\ Len(last.records) = 3
    /\ last.records[1].date = last.records[2].date
    /\ last.records[2].date < last.records[3].date

\* C8: a step changes the rows of no scope but that of the command taking
\* it, and the rows a command numbers or lists are rows of its own scope.
ScopeIsolation ==
    [][/\ \A sc \in Scopes :
             {r \in store' : InScope(r, sc)} # {r \in store : InScope(r, sc)}
                => \E h \in Handlers :
                      pc[h] # "idle" /\ pc'[h] = "idle" /\ loc[h].sc = sc
       /\ \A h \in Handlers : \A i \in 1..Len(loc'[h].records) :
             InScope(loc'[h].records[i], loc'[h].sc)
       /\ \A i \in 1..Len(last'.records) : InScope(last'.records[i], last'.sc)
       /\ \A r \in last'.removed : InScope(r, last'.sc)]_vars

\* a delete removed a row while another user of the channel and the same
\* user in another channel keep theirs
ScopeIsolationWitness ==
    /\ last.cmd \in {"delete", "deleteOne"}
    /\ last.outcome = "Deleted"
    /\ last.removed # {}
    /\ \E r \in store :
          r.channelId = last.sc.channelId /\ r.userId # last.sc.userId
    /\ \E r \in store :
          r.channelId # last.sc.channelId /\ r.userId = last.sc.userId

\* C9: a delete resolves its ordinals against the rows its own query finds
\* in the table, in ascending order of date, whatever listing a user read.
OrdinalsResolvedAfresh ==
    [][\A h \in Handlers :
          (pc[h] = "get" /\ pc'[h] = "remove")
          => LET records == loc'[h].records
                 uniqueIndexes == loc'[h].uniqueIndexes
                 targets == loc'[h].targets
             IN  /\ Range(records) = {r \in store : InScope(r, loc[h].sc)}
                 /\ Len(records) = Cardinality(Range(records))
                 /\ \A i, j \in 1..Len(records) :
                       i < j => records[i].date <= records[j].date
                 /\ Range(uniqueIndexes) = TokenOrdinals(loc[h].input)
                 /\ Len(targets) = Len(uniqueIndexes)
                 /\ \A k \in 1..Len(targets) :
                       targets[k] = records[uniqueIndexes[k]].id]_vars

\* a user read a listing, the row listed first was deleted by someone else,
\* and the user's delete "1" removed another row
OrdinalRaceWitness ==
    /\ last.cmd = "delete"
    /\ last.outcome = "Deleted"
    /\ last.input = <<"1">>
    /\ seen.sc = last.sc
    /\ Len(seen.records) >= 2
    /\ seen.records[1] \notin store \cup last.removed
    /\ seen.records[2] \in last.removed

\* a user read a listing, a row was inserted, and the user's delete "1"
\* removed the inserted row while the row listed first is still there
OrdinalRaceByInsertion ==
    /\ last.cmd = "delete"
    /\ last.outcome = "Deleted"
    /\ last.input = <<"1">>
    /\ seen.sc = last.sc
    /\ Len(seen.records) = 1
    /\ seen.records[1] \in store
    /\ last.removed # {}

\* C10 as stated: a delete that reports k ordinals deleted removed k rows.
DeleteReportsWhatItRemoved ==
    (last.cmd = "delete" /\ last.outcome = "Deleted")
       => Cardinality(last.removed) = Cardinality(TokenOrdinals(last.input))

\* C10 amended: a delete that reports k ordinals deleted removed at most k
\* rows, and k rows when its remove found the scope as its query found it.
DeleteReportsAtLeastWhatItRemoved ==
    (last.cmd = "delete" /\ last.outcome = "Deleted")
       => /\ Cardinality(last.removed)
               <= Cardinality(TokenOrdinals(last.input))
          /\ last.quiet =>
               Cardinality(last.removed)
                  = Cardinality(TokenOrdinals(last.input))

\* a delete reported one ordinal deleted after another delete had removed
\* the row
DeleteReportWitness ==
    /\ last.cmd = "delete"
    /\ last.outcome = "Deleted"
    /\ ~last.quiet
    /\ last.removed = {}

=============================================================================
